---- MODULE Spec2Model ----
(***************************************************************************)
(* A model of the IG_viral pipeline: the collector (scraper.py), the audio *)
(* cache (downloader.py), the transcript cache (transcriber.py), the       *)
(* analysis and generation stages (analyzer.py, script_generator.py) and   *)
(* the two orchestrators (main.py, app.py).                                *)
(*                                                                         *)
(* External collaborators (instaloader, yt-dlp, whisper, the language-     *)
(* model clients) are the environment: every call draws its outcome from   *)
(* the set of outcomes the collaborator can produce, an exception of a     *)
(* class the caller names, an exception of any other class, or a value.    *)
(***************************************************************************)
EXTENDS Integers, Sequences, FiniteSets, TLC

\* ------------------------------------------------------------------------
\* Bounds of the model
\* ------------------------------------------------------------------------
\* the most posts one target's iterator yields before it ends or raises
MaxPosts == 2
\* the most elements of a response array of the generation call
MaxItems == 2
\* posts in the feed of a target scraped on its own
MaxFeed == 7

\* ------------------------------------------------------------------------
\* Values
\* ------------------------------------------------------------------------
\* Python's None, for the Optional[str] and Optional[dict] slots
None == "None"

\* exception classes, as far as the handlers of the code tell them apart
NoExc == "none"
TooManyRequests == "TooManyRequestsException"
QueryNotFound == "QueryReturnedNotFoundException"
ProfileNotExists == "ProfileNotExistsException"
ConnectionExc == "ConnectionException"

\* scraper.py:120 and :171, limit = max_results * 5
OverFetch == 5

\* the min_views argument of the runs of the model
MinViewsArgs == {1, 2}

\* the max_results argument of the runs of the model
MaxResultsArgs == {0, 1, 2}

\* The posts the enumeration collaborator can yield: two videos with equal
\* views, a third with fewer views (below the larger threshold) and a post
\* that is no video.
PostUniverse ==
    { [shortcode |-> "A", video_view_count |-> 2, is_video |-> TRUE],
      [shortcode |-> "B", video_view_count |-> 2, is_video |-> TRUE],
      [shortcode |-> "C", video_view_count |-> 1, is_video |-> TRUE],
      [shortcode |-> "E", video_view_count |-> 2, is_video |-> FALSE] }

Shortcodes == { p.shortcode : p \in PostUniverse }

\* The lists of targets handed to scrape_targets: hashtags, profile handles
\* and profile URLs in both orders, a repeated target, blank entries.
TargetLists ==
    { <<"fitness">>, <<"@coach_joe">>, <<" ">>,
      <<"fitness", "@coach_joe">>, <<"@coach_joe", "fitness">>,
      <<"fitness", "fitness">>,
      <<"https://instagram.com/coach_joe/", "@coach_joe">>,
      <<"fitness", " ", "@coach_joe">>,
      <<"fitness", "@coach_joe", "motivation">> }

RECURSIVE SeqsUpTo(_, _)
SeqsUpTo(S, n) ==
    IF n = 0 THEN { <<>> }
    ELSE LET shorter == SeqsUpTo(S, n - 1)
         IN  shorter \cup { Append(s, x) : s \in { t \in shorter : Len(t) = n - 1 }, x \in S }

Range(s) == { s[i] : i \in 1..Len(s) }

Take(s, k) == SubSeq(s, 1, IF k < Len(s) THEN k ELSE Len(s))

\* ------------------------------------------------------------------------
\* scraper.py
\* ------------------------------------------------------------------------
\* str.strip() on the target names of the model
Strip(t) == IF t = " " THEN "" ELSE t

\* target.startswith("http") or target.startswith("@")
IsProfileTarget(t) == t \in {"@coach_joe", "https://instagram.com/coach_joe/"}

\* _post_to_reel: None (the empty sequence here) for a post that is no
\* video, else a ReelData; src is the identity of the object, the index of
\* the target whose enumeration created it.
_post_to_reel(post, src) ==
    IF ~post.is_video THEN <<>>
    ELSE << [shortcode |-> post.shortcode,
             views |-> post.video_view_count,
             src |-> src,
             transcript |-> None,
             analysis |-> None] >>

\* a collection result left in the order of discovery
SortByViewsDesc_Unsorted(rs) == rs

\* list.sort(key=lambda r: r.views, reverse=True): stable, descending
RECURSIVE InsertByViews(_, _)
InsertByViews(sorted, r) ==
    IF sorted = <<>> THEN <<r>>
    ELSE IF Head(sorted).views >= r.views
         THEN <<Head(sorted)>> \o InsertByViews(Tail(sorted), r)
         ELSE <<r>> \o sorted

\* a descending sort that puts an element ahead of its equals
RECURSIVE InsertAheadOfTies(_, _)
InsertAheadOfTies(sorted, r) ==
    IF sorted = <<>> THEN <<r>>
    ELSE IF Head(sorted).views > r.views
         THEN <<Head(sorted)>> \o InsertAheadOfTies(Tail(sorted), r)
         ELSE <<r>> \o sorted

RECURSIVE SortByViewsDesc_TiesReversed(_)
SortByViewsDesc_TiesReversed(s) ==
    IF s = <<>> THEN <<>>
    ELSE InsertAheadOfTies(SortByViewsDesc_TiesReversed(SubSeq(s, 1, Len(s) - 1)), s[Len(s)])

RECURSIVE SortByViewsDesc(_)
SortByViewsDesc(s) ==
    IF s = <<>> THEN <<>>
    ELSE InsertByViews(SortByViewsDesc(SubSeq(s, 1, Len(s) - 1)), s[Len(s)])

\* The for loop over tag.get_posts() / profile.get_posts(): posts is what
\* the iterator yields, tail how it stops after them (NoExc: exhausted).
\* Returns the reels kept, the posts consumed (fetched), the posts the
\* iterator yielded (pulled: the for statement takes the next post before
\* the body tests fetched >= limit) and the exception raised.
RECURSIVE FetchLoop(_, _, _, _, _, _, _, _)
FetchLoop(posts, tail, i, limit, min_views, src, reels, fetched) ==
    IF i > Len(posts)
    THEN [reels |-> reels, fetched |-> fetched, pulled |-> Len(posts), exc |-> tail]
    ELSE IF fetched >= limit
    THEN [reels |-> reels, fetched |-> fetched, pulled |-> i, exc |-> NoExc]
    ELSE LET reel == _post_to_reel(posts[i], src)
             keep == reel # <<>> /\ reel[1].views >= min_views
         IN  FetchLoop(posts, tail, i + 1, limit, min_views, src,
                       IF keep THEN reels \o reel ELSE reels, fetched + 1)

\* a rate-limit handler that drops what was collected
RateLimitedReels_Dropped(reels) == <<>>

\* what the rate-limit handler of the loop leaves in reels ("Using what we
\* have")
RateLimitedReels(reels) == reels

\* scrape_by_hashtag / scrape_by_profile. enum is the outcome of the
\* collaborator: lookup is what Hashtag.from_name / Profile.from_username
\* (or _get_loader before it) raises. The two functions differ in the
\* not-found class they catch.
scrape_by(profile, enum, max_results, min_views, src) ==
    LET caught == IF profile THEN ProfileNotExists ELSE QueryNotFound
    IN  IF enum.lookup = caught THEN [exc |-> NoExc, batch |-> <<>>, fetched |-> 0, pulled |-> 0]
        ELSE IF enum.lookup # NoExc THEN [exc |-> enum.lookup, batch |-> <<>>, fetched |-> 0,
                                         pulled |-> 0]
        ELSE LET r == FetchLoop(enum.posts, enum.tail, 1, max_results * OverFetch,
                                min_views, src, <<>>, 0)
                 reels == IF r.exc = TooManyRequests THEN RateLimitedReels(r.reels)
                          ELSE r.reels
             IN  IF r.exc \notin {NoExc, TooManyRequests}
                 THEN [exc |-> r.exc, batch |-> <<>>, fetched |-> r.fetched,
                       pulled |-> r.pulled]
                 ELSE [exc |-> NoExc,
                       batch |-> Take(SortByViewsDesc(reels), max_results),
                       fetched |-> r.fetched, pulled |-> r.pulled]

\* a merge that never consults the seen-set
KeepReel_NoDedup(seen, reel) == TRUE

\* the dedup loop of scrape_targets over one batch
KeepReel(seen, reel) == reel.shortcode \notin seen

RECURSIVE MergeBatch(_, _, _)
MergeBatch(seen, all_reels, batch) ==
    IF batch = <<>> THEN [seen |-> seen, all_reels |-> all_reels]
    ELSE LET reel == Head(batch)
         IN  IF KeepReel(seen, reel)
             THEN MergeBatch(seen \cup {reel.shortcode}, Append(all_reels, reel), Tail(batch))
             ELSE MergeBatch(seen, all_reels, Tail(batch))

\* a handler that names the connection error only
CaughtByScrapeTargets_ConnectionOnly(exc) == exc = ConnectionExc

\* except Exception as exc: every exception class of the model derives
\* from Exception
CaughtByScrapeTargets(exc) == TRUE

\* the batch scrape_targets merges: none for a target whose scrape raised
\* (print ... continue)
TargetBatch(res) == IF res.exc # NoExc THEN <<>> ELSE res.batch

\* the outcomes of one target's enumeration
LookupOutcomes == {NoExc, QueryNotFound, ProfileNotExists, TooManyRequests, ConnectionExc}
TailOutcomes == {NoExc, TooManyRequests, ConnectionExc}

Enumerations ==
    { [lookup |-> l, posts |-> <<>>, tail |-> NoExc] : l \in LookupOutcomes \ {NoExc} }
    \cup
    { [lookup |-> NoExc, posts |-> ps, tail |-> t] :
        ps \in SeqsUpTo(PostUniverse, MaxPosts), t \in TailOutcomes }

\* ------------------------------------------------------------------------
\* config.py
\* ------------------------------------------------------------------------
\* the names config.py binds at import
ConfigPy ==
    { "GROQ_API_KEY", "IG_USERNAME", "IG_PASSWORD", "GOOGLE_SERVICE_ACCOUNT_FILE",
      "GOOGLE_SHEET_ID", "SCRAPE_TARGETS", "MIN_VIEWS", "MAX_REELS_PER_TARGET",
      "SCRIPTS_TO_GENERATE", "GROQ_MODEL", "AUDIO_CACHE_DIR", "OUTPUT_DIR" }

\* the names the stages read from config that config.py does not bind
LazyNames == { "ANTHROPIC_API_KEY", "CLAUDE_MODEL", "WHISPER_MODEL_SIZE" }

\* The config module of a process: the one of config.py, on which reading
\* a name of LazyNames raises AttributeError, and that module with those
\* names bound, so that the code behind the reads is explored as well.
ConfigModules == { ConfigPy, ConfigPy \cup LazyNames }

EnvironmentError == "EnvironmentError"

\* no config module: GROQ_API_KEY is not set and _require raised while
\* config.py was imported
NoConfig == {}

\* ------------------------------------------------------------------------
\* script_generator.py
\* ------------------------------------------------------------------------
AttributeError == "AttributeError"
TypeError == "TypeError"
ValueError == "ValueError"
IndexError == "IndexError"
JSONDecodeError == "JSONDecodeError"
APIError == "APIError"

\* script_generator.py:146, item.get("estimated_duration_seconds", 45)
DefaultDuration == 45

\* The elements a response array is made of. dur is the JSON token under
\* "estimated_duration_seconds" ("absent": no such key).
ElementUniverse ==
    { [type |-> "object", hook |-> "h1", dur |-> "30"],
      [type |-> "object", hook |-> "h2", dur |-> "absent"],
      [type |-> "object", hook |-> "h3", dur |-> "\"60\""],
      [type |-> "object", hook |-> "h4", dur |-> "\"soon\""],
      [type |-> "object", hook |-> "h5", dur |-> "null"],
      [type |-> "string", hook |-> "", dur |-> "absent"] }

\* a key of a JSON object, a character of a JSON string: what iterating
\* over a response that is an object or a string yields
StrItem == [type |-> "string", hook |-> "", dur |-> "absent"]

\* int(...) of the value under "estimated_duration_seconds"
IntOf(tok) ==
    IF tok = "absent" THEN [exc |-> NoExc, value |-> DefaultDuration]
    ELSE IF tok = "30" THEN [exc |-> NoExc, value |-> 30]
    ELSE IF tok = "\"60\"" THEN [exc |-> NoExc, value |-> 60]
    ELSE IF tok = "null" THEN [exc |-> TypeError, value |-> 0]
    ELSE [exc |-> ValueError, value |-> 0]

\* GeneratedScript(index=i, hook=item.get("hook", ""), ...,
\* estimated_duration_seconds=int(item.get(...)), ...)
MakeScript(i, item) ==
    IF item.type # "object" THEN [exc |-> AttributeError, script |-> <<>>]
    ELSE LET d == IntOf(item.dur)
         IN  IF d.exc # NoExc THEN [exc |-> d.exc, script |-> <<>>]
             ELSE [exc |-> NoExc,
                   script |-> << [index |-> i, hook |-> item.hook,
                                  estimated_duration_seconds |-> d.value] >>]

\* except (KeyError, ValueError): the element is skipped
SkippedByGenerate(exc) == exc \in {"KeyError", ValueError}

\* for i, item in enumerate(items, 1)
RECURSIVE GenerateLoop(_, _, _)
GenerateLoop(items, i, scripts) ==
    IF i > Len(items) THEN [exc |-> NoExc, scripts |-> scripts]
    ELSE LET m == MakeScript(i, items[i])
         IN  IF m.exc = NoExc THEN GenerateLoop(items, i + 1, scripts \o m.script)
             ELSE IF SkippedByGenerate(m.exc) THEN GenerateLoop(items, i + 1, scripts)
             ELSE [exc |-> m.exc, scripts |-> <<>>]

\* json.loads(raw): raw is a text of the model, given by what it parses to
JsonLoads(raw) ==
    IF raw.kind \in {"not_json", "fenced_array"}
    THEN [exc |-> JSONDecodeError, value |-> raw]
    ELSE [exc |-> NoExc, value |-> raw]

\* except json.JSONDecodeError / except anthropic.APIError: return []
CaughtByGenerate(exc) == exc \in {JSONDecodeError, APIError}

\* generate_scripts. config is the config module, llm the outcome of
\* client.messages.create: an exception, a message without content, or a
\* message with the text raw. Returns the exception that leaves the
\* function (NoExc: it returns) and the list returned.
generate_scripts(config, llm) ==
    IF "ANTHROPIC_API_KEY" \notin config \/ "CLAUDE_MODEL" \notin config
    THEN [exc |-> AttributeError, scripts |-> <<>>, called |-> FALSE]
    ELSE IF llm.call # NoExc
    THEN [exc |-> IF CaughtByGenerate(llm.call) THEN NoExc ELSE llm.call,
          scripts |-> <<>>, called |-> TRUE]
    ELSE LET parsed == JsonLoads(llm.raw)
         IN  IF parsed.exc # NoExc
             THEN [exc |-> IF CaughtByGenerate(parsed.exc) THEN NoExc ELSE parsed.exc,
                   scripts |-> <<>>, called |-> TRUE]
             ELSE IF parsed.value.kind \in {"number", "null"}
             THEN [exc |-> TypeError, scripts |-> <<>>, called |-> TRUE]
             ELSE LET r == GenerateLoop(parsed.value.items, 1, <<>>)
                  IN  [exc |-> r.exc, scripts |-> r.scripts, called |-> TRUE]

\* the texts a response can carry
RawTexts ==
    { [kind |-> k, items |-> <<>>] : k \in {"not_json", "number", "null", "object", "string"} }
    \cup { [kind |-> k, items |-> <<StrItem>>] : k \in {"object", "string"} }
    \cup { [kind |-> k, items |-> es] :
             k \in {"array", "fenced_array"}, es \in SeqsUpTo(ElementUniverse, MaxItems) }

\* the outcomes of client.messages.create(...) and message.content[0].text
LlmOutcomes ==
    { [call |-> e, raw |-> [kind |-> "not_json", items |-> <<>>]] :
        e \in {APIError, IndexError, ConnectionExc} }
    \cup { [call |-> NoExc, raw |-> r] : r \in RawTexts }

\* ------------------------------------------------------------------------
\* The cache directory
\* ------------------------------------------------------------------------
\* a file that does not exist
Absent == "<absent>"

\* hashlib.md5(reel.shortcode.encode()).hexdigest()[:12]
SafeId(shortcode) ==
    IF shortcode = "A" THEN "7fc56270e7a7"
    ELSE IF shortcode = "B" THEN "9d5ed678fe57"
    ELSE "0d61f8370cad"

\* _cache_path: AUDIO_DIR / f"{safe_id}.mp3"
_cache_path(shortcode) == [stem |-> SafeId(shortcode), suffix |-> ".mp3"]

\* Path.with_suffix
WithSuffix(path, suffix) == [path EXCEPT !.suffix = suffix]

\* the shortcodes of the reels of a run
RunCodes == {"A", "C"}

CachePaths == { [stem |-> SafeId(c), suffix |-> x] : c \in RunCodes, x \in {".mp3", ".txt"} }

EmptyDir == [p \in CachePaths |-> Absent]

\* The cache directories a run of the CLI can start with: any subset of
\* the audio files, with or without transcript sidecars (one of them empty).
CacheDirs ==
    { [p \in CachePaths |->
         IF p.suffix = ".mp3"
         THEN (IF p.stem \in audio THEN "audio" ELSE Absent)
         ELSE (IF p.stem = SafeId("A") THEN ta ELSE tb)] :
        audio \in SUBSET { SafeId(c) : c \in RunCodes },
        ta \in {Absent, "", "cached words"},
        tb \in {Absent, "cached words"} }

\* ------------------------------------------------------------------------
\* downloader.py
\* ------------------------------------------------------------------------
DownloadError == "DownloadError"
OSError == "OSError"

\* the outcomes of ydl.download([url])
DownloadOutcomes == {NoExc, DownloadError, OSError}

\* except yt_dlp.utils.DownloadError
CaughtByDownloadAudio(exc) == exc = DownloadError

\* a cache check that never hits
CacheHit_Never(dir, dest, force) == FALSE

\* if dest.exists() and not force
CacheHit(dir, dest, force) == dir[dest] # Absent /\ ~force

\* download_audio(reel, force) on the directory fs; dl is the outcome of
\* the download collaborator, consulted only when called is TRUE. Returns
\* the exception leaving the function, the path returned (None: a miss) and
\* the directory afterwards.
download_audio(fs, shortcode, force, dl) ==
    LET dest == _cache_path(shortcode)
    IN  IF CacheHit(fs, dest, force)
        THEN [exc |-> NoExc, path |-> <<dest>>, fs |-> fs, called |-> FALSE]
        ELSE IF dl = NoExc
        THEN [exc |-> NoExc, path |-> <<dest>>,
              fs |-> [fs EXCEPT ![dest] = "audio"], called |-> TRUE]
        ELSE IF CaughtByDownloadAudio(dl)
        THEN [exc |-> NoExc, path |-> <<>>, fs |-> fs, called |-> TRUE]
        ELSE [exc |-> dl, path |-> <<>>, fs |-> fs, called |-> TRUE]

\* ------------------------------------------------------------------------
\* transcriber.py
\* ------------------------------------------------------------------------
\* the outcomes of model.transcribe(...)["text"]: a text, a text of white
\* space only, an exception
TranscribeOutcomes == {" spoken words ", "   ", "RuntimeError"}

\* str.strip() on the texts of the model
StripText(t) ==
    IF t = " spoken words " THEN "spoken words"
    ELSE IF t = "   " THEN ""
    ELSE t

\* _get_model: the loaded model, or the exception of reading
\* config.WHISPER_MODEL_SIZE
_get_model(model, config) ==
    IF model # None THEN [exc |-> NoExc, model |-> model]
    ELSE IF "WHISPER_MODEL_SIZE" \notin config THEN [exc |-> AttributeError, model |-> None]
    ELSE [exc |-> NoExc, model |-> "whisper"]

\* a transcribe_file that never reads the sidecar
TranscriptCacheHit_Never(fs, cache_path, force) == FALSE

\* if cache_path.exists() and not force
TranscriptCacheHit(fs, cache_path, force) == fs[cache_path] # Absent /\ ~force

\* transcribe_file(audio_path, force); tr is the outcome of the transcriber,
\* consulted only when called is TRUE. Returns the transcript (None on
\* failure), the directory and the module's _model afterwards.
transcribe_file(fs, model, config, audio_path, force, tr) ==
    LET cache_path == WithSuffix(audio_path, ".txt")
    IN  IF TranscriptCacheHit(fs, cache_path, force)
        THEN [text |-> fs[cache_path], fs |-> fs, model |-> model, called |-> FALSE]
        ELSE IF fs[audio_path] = Absent
        THEN [text |-> None, fs |-> fs, model |-> model, called |-> FALSE]
        ELSE LET m == _get_model(model, config)
             IN  IF m.exc # NoExc
                 THEN [text |-> None, fs |-> fs, model |-> m.model, called |-> FALSE]
                 ELSE IF tr = "RuntimeError"
                 THEN [text |-> None, fs |-> fs, model |-> m.model, called |-> TRUE]
                 ELSE [text |-> StripText(tr),
                       fs |-> [fs EXCEPT ![cache_path] = StripText(tr)],
                       model |-> m.model, called |-> TRUE]

\* Python truth of an Optional[str] / Optional[dict]
Truthy(v) == v \notin {None, "", "{}"}

\* transcribed = sum(1 for r in reels if r.transcript)
Transcribed(reels) == Cardinality({ i \in 1..Len(reels) : Truthy(reels[i].transcript) })

\* a count that takes an empty transcript for a transcript
NoTranscripts_NoneOnly(reels) == \A i \in 1..Len(reels) : reels[i].transcript = None

\* if transcribed == 0
NoTranscripts(reels) == Transcribed(reels) = 0

\* ------------------------------------------------------------------------
\* analyzer.py
\* ------------------------------------------------------------------------
\* the outcomes of _chat: None (any exception of the Groq call, caught
\* there) or the stripped text of the response
ChatOutcomes ==
    {None, "", "not json", "null", "{}", "{\"hook\": 1}", "<fence>json{\"hook\": 1}<fence>"}

\* if raw starts with a markdown fence: the text between the first two
\* fences, less a leading "json" (<fence> stands for the three backticks)
StripFence(raw) == IF raw = "<fence>json{\"hook\": 1}<fence>" THEN "{\"hook\": 1}" ELSE raw

\* the texts of the model json.loads accepts
JsonTexts == {"null", "{}", "{\"hook\": 1}"}

\* json.loads on the texts of the model: the value (None for null), None
\* for a JSONDecodeError
ParseJson(raw) == IF raw \in {"{}", "{\"hook\": 1}"} THEN raw ELSE None

\* analyse_reel past its transcript check, and the tail of analyse_batch
\* from raw = _chat(...): None, or the parsed response
ParseChat(raw) == IF raw \in {None, ""} THEN None ELSE ParseJson(StripFence(raw))

\* ------------------------------------------------------------------------
\* State
\* ------------------------------------------------------------------------
VARIABLES
    \* scrape_targets: its arguments, its locals and its position
    targets, max_results, min_views, ti, seen, all_reels, cpc,
    \* history of the enumeration, one entry per target of the list: how
    \* its scrape ended, the shortcodes of the batch it returned and, for a
    \* scrape the rate limit cut short, the shortcodes of the qualifying
    \* videos its loop had consumed and their number
    hist,
    \* the config module of the process
    config_attrs,
    \* generate_scripts: its argument n, the outcome of its language-model
    \* call, what it returned or raised, and its position
    gen_n, gen_llm, gen_out, gpc,
    \* a run of the pipeline: the entry point ("run": main.py run, "gen":
    \* main.py gen, "app": app.py) and its options, the position of the orchestrator, its list
    \* of reels and loop index, audio_map, the cache directory, the
    \* transcriber's _model, per_reel_results, the aggregate strategy and
    \* the generated scripts
    entry, opts, pc, reels, idx, audio_map, fs, whisper_model,
    per_reel_results, strategy, scripts,
    \* how the run ended ("running" until then), the exit code, the
    \* exception that left a stage operation and the files written
    status, exit_code, fault, saved,
    \* history of the run: per reel how its download ("hit": served from
    \* the cache, "ok": downloaded, "redo": downloaded over a cached file,
    \* "miss", "raised") and its transcription ("no_audio", "hit", "ok",
    \* "redo": transcribed over a cached transcript, "failed") went, and the
    \* number of calls of each collaborator
    dl_log, tr_log, calls,
    \* per reel, the number of assignments of its transcript and of its
    \* analysis
    writes,
    \* the calls of the run in the order they were made: download_audio and
    \* transcribe_file with the reel's position, the per-reel and the
    \* reduction _chat with what it returned, generate_scripts
    events,
    \* repeated calls of download_audio on one reel: the cache directory,
    \* the reel's shortcode, the force argument, what each call returned or
    \* raised, and the number of calls of the download collaborator
    dl_fs, dl_reel, dl_force, dl_returns, dl_invoked,
    \* one call of scrape_by_hashtag / scrape_by_profile on a long feed: the
    \* function (profile or hashtag), what the enumeration yields, what the
    \* call returned, and its position
    sb_profile, sb_enum, sb_out, sb_pc,
    \* repeated calls of transcribe_file on one audio path: the cache
    \* directory, the path, the transcriber's _model, per call its force
    \* argument, what it returned and whether it called the transcriber
    tf_fs, tf_audio, tf_model, tf_returns

cvars == <<targets, max_results, min_views, ti, seen, all_reels, cpc, hist>>

gvars == <<gen_n, gen_llm, gen_out, gpc>>

rvars == <<entry, opts, pc, reels, idx, audio_map, fs, whisper_model,
           per_reel_results, strategy, scripts, status, exit_code, fault, saved,
           dl_log, tr_log, calls, writes, events>>

dvars == <<dl_fs, dl_reel, dl_force, dl_returns, dl_invoked>>

svars == <<sb_profile, sb_enum, sb_out, sb_pc>>

tvars == <<tf_fs, tf_audio, tf_model, tf_returns>>

vars == <<cvars, config_attrs, gvars, rvars, dvars, svars, tvars>>

\* the collector before it is called
CollectIdle ==
    /\ targets = <<>>
    /\ max_results = 0
    /\ min_views = 0
    /\ ti = 1
    /\ seen = {}
    /\ all_reels = <<>>
    /\ cpc = "idle"
    /\ hist = <<>>

NoLlm == [call |-> NoExc, raw |-> [kind |-> "not_json", items |-> <<>>]]

NoGenOut == [exc |-> NoExc, scripts |-> <<>>, called |-> FALSE]

\* the generator before it is called
GenIdle ==
    /\ gen_n = 0
    /\ gen_llm = NoLlm
    /\ gen_out = NoGenOut
    /\ gpc = "idle"

NoFault == [op |-> "none", exc |-> NoExc]

NoCalls == [download |-> 0, transcribe |-> 0, chat_item |-> 0, chat_reduce |-> 0,
            generate |-> 0]

NoEnum == [lookup |-> NoExc, posts |-> <<>>, tail |-> NoExc]

NoBatch == [exc |-> NoExc, batch |-> <<>>, fetched |-> 0, pulled |-> 0]

\* scrape_by_hashtag / scrape_by_profile not called on its own
FetchIdle ==
    /\ sb_profile = FALSE
    /\ sb_enum = NoEnum
    /\ sb_out = NoBatch
    /\ sb_pc = "idle"

\* transcribe_file not called on its own
TranscribeIdle ==
    /\ tf_fs = EmptyDir
    /\ tf_audio = None
    /\ tf_model = None
    /\ tf_returns = <<>>

\* download_audio not called on its own
CacheIdle ==
    /\ dl_fs = EmptyDir
    /\ dl_reel = None
    /\ dl_force = FALSE
    /\ dl_returns = <<>>
    /\ dl_invoked = 0

\* no run of the pipeline
RunIdle ==
    /\ entry = "none"
    /\ opts = [force |-> FALSE, skip_download |-> FALSE, strategy_file |-> "none"]
    /\ pc = "idle"
    /\ reels = <<>>
    /\ idx = 1
    /\ audio_map = {}
    /\ fs = EmptyDir
    /\ whisper_model = None
    /\ per_reel_results = <<>>
    /\ strategy = None
    /\ scripts = <<>>
    /\ status = "running"
    /\ exit_code = 0
    /\ fault = NoFault
    /\ saved = {}
    /\ dl_log = <<>>
    /\ tr_log = <<>>
    /\ writes = <<>>
    /\ events = <<>>
    /\ calls = NoCalls

\* ------------------------------------------------------------------------
\* scrape_targets, one loop iteration per step
\* ------------------------------------------------------------------------
InitCollect ==
    /\ targets \in TargetLists
    /\ max_results \in MaxResultsArgs
    /\ min_views \in MinViewsArgs
    /\ ti = 1
    /\ seen = {}
    /\ all_reels = <<>>
    /\ cpc = "loop"
    /\ hist = <<>>
    /\ config_attrs = ConfigPy
    /\ GenIdle
    /\ RunIdle
    /\ CacheIdle
    /\ FetchIdle
    /\ TranscribeIdle

\* if not target: continue
SkipBlankTarget ==
    /\ cpc = "loop"
    /\ ti <= Len(targets)
    /\ Strip(targets[ti]) = ""
    /\ ti' = ti + 1
    /\ hist' = Append(hist, [end |-> "blank", batch |-> <<>>, offered |-> {}, qualifying |-> 0])
    /\ UNCHANGED <<targets, max_results, min_views, seen, all_reels, cpc, config_attrs, dvars, svars, tvars, gvars, rvars>>

\* how the scrape of a target ended, for the history
EndOf(enum, res) ==
    IF res.exc = TooManyRequests THEN "rate_limited_lookup"
    ELSE IF res.exc # NoExc THEN "raised"
    ELSE IF enum.lookup # NoExc THEN "not_found"
    ELSE IF enum.tail = TooManyRequests /\ res.fetched = Len(enum.posts) THEN "rate_limited"
    ELSE "ok"

\* the qualifying videos among the posts the loop consumed
Qualifying(enum, res, mv) ==
    { i \in 1..res.fetched : enum.posts[i].is_video /\ enum.posts[i].video_view_count >= mv }

ScrapeTarget ==
    /\ cpc = "loop"
    /\ ti <= Len(targets)
    /\ Strip(targets[ti]) # ""
    /\ \E enum \in Enumerations :
         LET res == scrape_by(IsProfileTarget(Strip(targets[ti])), enum,
                              max_results, min_views, ti)
             batch == TargetBatch(res)
             m == MergeBatch(seen, all_reels, batch)
             end == EndOf(enum, res)
             q == IF end = "rate_limited" THEN Qualifying(enum, res, min_views) ELSE {}
         IN  /\ seen' = m.seen
             /\ all_reels' = m.all_reels
             /\ hist' = Append(hist,
                    [end |-> end,
                     batch |-> [i \in 1..Len(batch) |-> batch[i].shortcode],
                     offered |-> { enum.posts[i].shortcode : i \in q },
                     qualifying |-> Cardinality(q)])
             /\ cpc' = IF res.exc # NoExc /\ ~CaughtByScrapeTargets(res.exc)
                       THEN "raised" ELSE cpc
    /\ ti' = ti + 1
    /\ UNCHANGED <<targets, max_results, min_views, config_attrs, dvars, svars, tvars, gvars, rvars>>

\* all_reels.sort(...); return all_reels
ScrapeReturn ==
    /\ cpc = "loop"
    /\ ti > Len(targets)
    /\ all_reels' = SortByViewsDesc(all_reels)
    /\ cpc' = "returned"
    /\ UNCHANGED <<targets, max_results, min_views, ti, seen, hist, config_attrs, dvars, svars, tvars, gvars, rvars>>

NextCollect == SkipBlankTarget \/ ScrapeTarget \/ ScrapeReturn

SpecCollect == InitCollect /\ [][NextCollect]_vars

\* ------------------------------------------------------------------------
\* Properties of the collector (under SpecCollect)
\* ------------------------------------------------------------------------
ResultCodes == { all_reels[i].shortcode : i \in 1..Len(all_reels) }

\* the targets whose batch held shortcode sc
Producers(sc) == { t \in 1..Len(hist) : sc \in Range(hist[t].batch) }

ViewsOf(sc) == (CHOOSE p \in PostUniverse : p.shortcode = sc).video_view_count

\* C1: the list scrape_targets returns holds no two items with the same
\* shortcode, and every item of it is the object created for the earliest
\* target whose batch held that shortcode.
C1_DedupFirstSeenWins ==
    cpc = "returned" =>
        /\ \A i, j \in 1..Len(all_reels) :
              i # j => all_reels[i].shortcode # all_reels[j].shortcode
        /\ \A i \in 1..Len(all_reels) :
              /\ Producers(all_reels[i].shortcode) # {}
              /\ \A t \in Producers(all_reels[i].shortcode) : all_reels[i].src <= t
              /\ all_reels[i].src \in Producers(all_reels[i].shortcode)

\* C1 witness: a returned list after one shortcode came in the batches of
\* two targets, and one after a single batch held a shortcode twice.
C1_Witness ==
    /\ cpc = "returned"
    /\ \E sc \in ResultCodes : Cardinality(Producers(sc)) >= 2
    /\ \E t \in 1..Len(hist) : \E i, j \in 1..Len(hist[t].batch) :
          i # j /\ hist[t].batch[i] = hist[t].batch[j]

\* C9: scrape_targets never ends by an exception of one target's scrape:
\* it returns, having scraped every non-blank target of the list, and
\* every shortcode of every batch is in the returned list.
C9_FailureNeverAborts ==
    /\ cpc # "raised"
    /\ cpc = "returned" =>
          /\ Len(hist) = Len(targets)
          /\ \A t \in 1..Len(targets) :
                /\ Strip(targets[t]) # "" => hist[t].end # "blank"
                /\ Range(hist[t].batch) \subseteq ResultCodes

\* C9 witness: a returned list holding an item of a target that came after
\* a target whose collection failed.
C9_Witness ==
    /\ cpc = "returned"
    /\ \E t1, t2 \in 1..Len(hist) :
          /\ t1 < t2
          /\ hist[t1].end \in {"raised", "not_found", "rate_limited_lookup"}
          /\ \E i \in 1..Len(all_reels) : all_reels[i].src = t2

\* C10 as stated: a target whose enumeration met a rate-limit error, at
\* the lookup or part-way through the posts, has no item in the result.
C10_RateLimitedContributesNothing ==
    \A t \in 1..Len(hist) :
        hist[t].end \in {"rate_limited", "rate_limited_lookup"} =>
            /\ hist[t].batch = <<>>
            /\ \A i \in 1..Len(all_reels) : all_reels[i].src # t

Min2(a, b) == IF a < b THEN a ELSE b

\* C10 amended: a rate-limit error raised by the lookup leaves the target
\* without items; one raised while iterating leaves it the qualifying
\* videos consumed before the error, cut to the max_results with the most
\* views, and every shortcode of them is merged.
C10_RateLimitedKeepsPartial ==
    \A t \in 1..Len(hist) :
        /\ hist[t].end = "rate_limited_lookup" =>
              /\ hist[t].batch = <<>>
              /\ \A i \in 1..Len(all_reels) : all_reels[i].src # t
        /\ hist[t].end = "rate_limited" =>
              /\ Len(hist[t].batch) = Min2(hist[t].qualifying, max_results)
              /\ Range(hist[t].batch) \subseteq hist[t].offered
              /\ \A in \in Range(hist[t].batch), out \in hist[t].offered \ Range(hist[t].batch) :
                    ViewsOf(in) >= ViewsOf(out)
              /\ Range(hist[t].batch) \subseteq seen

\* C10 witness: a returned list holding an item of a target whose
\* iteration the rate limit cut short.
C10_Witness ==
    /\ cpc = "returned"
    /\ \E t \in 1..Len(hist) :
          /\ hist[t].end = "rate_limited"
          /\ \E i \in 1..Len(all_reels) : all_reels[i].src = t


\* ------------------------------------------------------------------------
\* generate_scripts on every response of the model
\* ------------------------------------------------------------------------
\* the n argument of the calls of the model
ScriptsArgs == {1, 2}

InitGen ==
    /\ CollectIdle
    /\ RunIdle
    /\ CacheIdle
    /\ FetchIdle
    /\ TranscribeIdle
    /\ config_attrs \in ConfigModules
    /\ gen_n \in ScriptsArgs
    /\ gen_llm = NoLlm
    /\ gen_out = NoGenOut
    /\ gpc = "ready"

GenerateCall ==
    /\ gpc = "ready"
    /\ \E llm \in LlmOutcomes :
         LET out == generate_scripts(config_attrs, llm)
         IN  /\ gen_llm' = llm
             /\ gen_out' = out
             /\ gpc' = IF out.exc = NoExc THEN "returned" ELSE "raised"
    /\ UNCHANGED <<cvars, config_attrs, dvars, svars, tvars, gen_n, rvars>>

NextGen == GenerateCall

SpecGen == InitGen /\ [][NextGen]_vars

\* ------------------------------------------------------------------------
\* Properties of generate_scripts (under SpecGen)
\* ------------------------------------------------------------------------
\* the language model was called and answered with a text
Answered == gpc \in {"returned", "raised"} /\ gen_out.called /\ gen_llm.call = NoExc

\* an element that is an object whose estimated_duration_seconds, when
\* present, is a number or a numeric string
WellFormed(e) == e.type = "object" /\ e.dur \in {"absent", "30", "\"60\""}

Hooks(xs) == [i \in 1..Len(xs) |-> xs[i].hook]

\* C3: whenever generate_scripts returns for a response that is a JSON
\* array, the scripts returned are as many as the well-formed elements and
\* carry the indices 1..m in order, without a gap.
C3_DenseIndices ==
    (Answered /\ gen_llm.raw.kind = "array" /\ gpc = "returned") =>
        /\ Len(gen_out.scripts) = Len(SelectSeq(gen_llm.raw.items, WellFormed))
        /\ \A j \in 1..Len(gen_out.scripts) : gen_out.scripts[j].index = j

\* C4: for a response that is no JSON at all or JSON other than an array,
\* generate_scripts returns the empty list and does not raise.
C4_NonArrayReturnsEmpty ==
    (Answered /\ gen_llm.raw.kind # "array") =>
        /\ gpc = "returned"
        /\ gen_out.scripts = <<>>

\* C5: for a response that is a JSON array, no element makes
\* generate_scripts raise, and the scripts returned are those of the
\* well-formed elements, in their order.
C5_MalformedElementSkipped ==
    (Answered /\ gen_llm.raw.kind = "array") =>
        /\ gpc = "returned"
        /\ Hooks(gen_out.scripts) = Hooks(SelectSeq(gen_llm.raw.items, WellFormed))

\* ------------------------------------------------------------------------
\* The pipeline: run of main.py and the script body of app.py
\* ------------------------------------------------------------------------
\* the arguments of the runs of the model
RunArgs == [targets |-> <<"fitness", "@coach_joe">>, max_results |-> 1, min_views |-> 1]

\* the enumerations of the runs of the model: a target that fails, one
\* without posts, one with a single video
RunEnumerations ==
    { e \in Enumerations :
        /\ e.lookup \in {NoExc, ConnectionExc}
        /\ e.tail = NoExc
        /\ Len(e.posts) <= 1
        /\ \A i \in 1..Len(e.posts) : e.posts[i].shortcode \in RunCodes }

\* the outcomes of the generation call in the runs of the model
RunLlmOutcomes ==
    { o \in LlmOutcomes :
        /\ o.call \in {NoExc, APIError}
        /\ o.raw.kind \in {"not_json", "null", "array"}
        /\ Len(o.raw.items) <= 1
        /\ \A i \in 1..Len(o.raw.items) : o.raw.items[i].dur \in {"30", "null"} }

\* json.loads(strategy_file.read_text(...)) of a strategy saved earlier
SavedStrategy == "{\"hook\": 1}"

\* scrape_targets as one call: the loop of ScrapeTarget and SkipBlankTarget
\* over all targets, then the sort of ScrapeReturn
RECURSIVE ScrapeAll(_, _, _, _, _, _, _)
ScrapeAll(tgs, enums, t, k, mv, seen0, all0) ==
    IF t > Len(tgs) THEN SortByViewsDesc(all0)
    ELSE IF Strip(tgs[t]) = "" THEN ScrapeAll(tgs, enums, t + 1, k, mv, seen0, all0)
    ELSE LET res == scrape_by(IsProfileTarget(Strip(tgs[t])), enums[t], k, mv, t)
             m == MergeBatch(seen0, all0, TargetBatch(res))
         IN  ScrapeAll(tgs, enums, t + 1, k, mv, m.seen, m.all_reels)

\* a lookup that falls back on the reel's path in the cache directory
AudioGet_FromCache(map, shortcode) == << _cache_path(shortcode) >>

\* audio_map.get(reel.shortcode)
AudioGet(map, shortcode) ==
    IF \E e \in map : e.shortcode = shortcode
    THEN << (CHOOSE e \in map : e.shortcode = shortcode).path >>
    ELSE <<>>

\* Stage 2 of app.py for one reel: the cache check and the download under
\* except Exception: pass
app_download(dir, shortcode, dl) ==
    LET dest == _cache_path(shortcode)
    IN  IF dir[dest] # Absent
        THEN [exc |-> NoExc, path |-> <<dest>>, fs |-> dir, called |-> FALSE]
        ELSE IF dl = NoExc
        THEN [exc |-> NoExc, path |-> <<dest>>,
              fs |-> [dir EXCEPT ![dest] = "audio"], called |-> TRUE]
        ELSE [exc |-> NoExc, path |-> <<>>, fs |-> dir, called |-> TRUE]

\* the record of one call in events
Event(op, reel, raw) == [op |-> op, reel |-> reel, raw |-> raw]

Bump(c, field, yes) == IF yes THEN [c EXCEPT ![field] = @ + 1] ELSE c

Init ==
    /\ CollectIdle
    /\ GenIdle
    /\ CacheIdle
    /\ FetchIdle
    /\ TranscribeIdle
    /\ config_attrs \in ConfigModules \cup {NoConfig}
    /\ \/ /\ entry = "run"
          /\ opts \in [force : BOOLEAN, skip_download : BOOLEAN,
                       strategy_file : {"none", "missing", "exists"}]
          /\ fs \in CacheDirs
       \/ /\ entry = "gen"
          /\ opts \in [force : {FALSE}, skip_download : {FALSE},
                       strategy_file : {"missing", "exists"}]
          /\ fs \in CacheDirs
       \/ /\ entry = "app"
          /\ opts = [force |-> FALSE, skip_download |-> FALSE, strategy_file |-> "none"]
          /\ fs = EmptyDir
    /\ pc = "start"
    /\ reels = <<>>
    /\ idx = 1
    /\ audio_map = {}
    /\ whisper_model = None
    /\ per_reel_results = <<>>
    /\ strategy = None
    /\ scripts = <<>>
    /\ status = "running"
    /\ exit_code = 0
    /\ fault = NoFault
    /\ saved = {}
    /\ dl_log = <<>>
    /\ tr_log = <<>>
    /\ writes = <<>>
    /\ events = <<>>
    /\ calls = NoCalls

\* raise typer.Exit(code=1) / st.stop()
Abort ==
    /\ status' = "aborted"
    /\ exit_code' = IF entry \in {"run", "gen"} THEN 1 ELSE 0
    /\ pc' = "end"

\* an exception leaves the stage operation op and ends the run
Crash(op, exc) ==
    /\ status' = "crashed"
    /\ exit_code' = IF entry \in {"run", "gen"} THEN 1 ELSE 0
    /\ fault' = [op |-> op, exc |-> exc]
    /\ pc' = "end"

\* an entry point that ignores the strategy file
StrategySupplied_Ignored(e, o) == FALSE

\* if strategy_file and strategy_file.exists() (run); the file argument
\* of gen past its existence check
StrategySupplied(e, o) == e \in {"run", "gen"} /\ o.strategy_file = "exists"

\* import config, then the first branch of run and of generate_only (gen):
\* a saved strategy skips to Stage 5; gen stops when its file does not
\* exist
Start ==
    /\ pc = "start"
    /\ IF config_attrs = NoConfig
       THEN Crash("startup", EnvironmentError) /\ UNCHANGED strategy
       ELSE IF entry = "gen" /\ opts.strategy_file # "exists"
       THEN Abort /\ UNCHANGED <<strategy, fault>>
       ELSE IF StrategySupplied(entry, opts)
       THEN /\ strategy' = SavedStrategy
            /\ pc' = "generate"
            /\ UNCHANGED <<status, exit_code, fault>>
       ELSE /\ strategy' = strategy
            /\ pc' = "scrape"
            /\ UNCHANGED <<status, exit_code, fault>>
    /\ UNCHANGED <<cvars, config_attrs, dvars, svars, tvars, gvars, entry, opts, reels, idx, audio_map, fs,
                   whisper_model, per_reel_results, scripts,
                   saved, dl_log, tr_log, writes, calls, events>>

\* Stage 1: scrape_targets (main.py) / the scrape loop (app.py), and the
\* check of the merged list
Scrape ==
    /\ pc = "scrape"
    /\ \E enums \in [1..Len(RunArgs.targets) -> RunEnumerations] :
         LET r == ScrapeAll(RunArgs.targets, enums, 1, RunArgs.max_results,
                            RunArgs.min_views, {}, <<>>)
         IN  /\ reels' = r
             /\ dl_log' = [i \in 1..Len(r) |-> "pending"]
             /\ tr_log' = [i \in 1..Len(r) |-> "pending"]
             /\ writes' = [i \in 1..Len(r) |-> [transcript |-> 0, analysis |-> 0]]
             /\ IF r = <<>>
                THEN Abort
                ELSE /\ pc' = IF entry = "run" /\ opts.skip_download
                              THEN "transcribe" ELSE "download"
                     /\ UNCHANGED <<status, exit_code>>
    /\ UNCHANGED <<cvars, config_attrs, dvars, svars, tvars, gvars, entry, opts, idx, audio_map, fs,
                   whisper_model, per_reel_results, strategy, scripts, fault, saved, calls,
                   events>>

\* Stage 2, one reel: an iteration of download_all (main.py) / of the
\* download loop (app.py)
DownloadItem ==
    /\ pc = "download"
    /\ idx <= Len(reels)
    /\ \E dl \in DownloadOutcomes :
         LET sc == reels[idx].shortcode
             r == IF entry = "run" THEN download_audio(fs, sc, opts.force, dl)
                  ELSE app_download(fs, sc, dl)
         IN  /\ fs' = r.fs
             /\ calls' = Bump(calls, "download", r.called)
             /\ events' = Append(events, Event("download_audio", idx, None))
             /\ IF r.exc # NoExc
                THEN /\ Crash("download_all", r.exc)
                     /\ dl_log' = [dl_log EXCEPT ![idx] = "raised"]
                     /\ UNCHANGED <<audio_map, idx>>
                ELSE /\ audio_map' = IF r.path # <<>>
                                     THEN audio_map \cup {[shortcode |-> sc, path |-> r.path[1]]}
                                     ELSE audio_map
                     /\ dl_log' = [dl_log EXCEPT ![idx] =
                                      IF r.path = <<>> THEN "miss"
                                      ELSE IF ~r.called THEN "hit"
                                      ELSE IF fs[r.path[1]] # Absent THEN "redo"
                                      ELSE "ok"]
                     /\ IF idx = Len(reels)
                        THEN pc' = "transcribe" /\ idx' = 1
                        ELSE pc' = pc /\ idx' = idx + 1
                     /\ UNCHANGED <<status, exit_code, fault>>
    /\ UNCHANGED <<cvars, config_attrs, dvars, svars, tvars, gvars, entry, opts, reels, whisper_model,
                   per_reel_results, strategy, scripts, saved, tr_log, writes>>

\* a run that never forces the transcription
TranscribeForce_Off(o) == FALSE

\* transcribe_reels(reels, audio_map, force=force)
TranscribeForce(o) == o.force

\* Stage 3, one reel: an iteration of transcribe_reels (main.py) / of the
\* transcription loop (app.py)
TranscribeItem ==
    /\ pc = "transcribe"
    /\ idx <= Len(reels)
    /\ \E tr \in TranscribeOutcomes :
         LET audio_path == AudioGet(audio_map, reels[idx].shortcode)
             force == entry = "run" /\ TranscribeForce(opts)
             r == transcribe_file(fs, whisper_model, config_attrs, audio_path[1], force, tr)
         IN  IF audio_path = <<>>
             THEN /\ tr_log' = [tr_log EXCEPT ![idx] = "no_audio"]
                  /\ writes' = writes
                  /\ UNCHANGED <<reels, fs, whisper_model, calls, events>>
             ELSE /\ reels' = [reels EXCEPT ![idx].transcript = r.text]
                  /\ fs' = r.fs
                  /\ whisper_model' = r.model
                  /\ calls' = Bump(calls, "transcribe", r.called)
                  /\ writes' = [writes EXCEPT ![idx].transcript = @ + 1]
                  /\ events' = Append(events, Event("transcribe_file", idx, None))
                  /\ tr_log' = [tr_log EXCEPT ![idx] =
                                   IF r.text = None THEN "failed"
                                   ELSE IF ~r.called THEN "hit"
                                   ELSE IF fs[WithSuffix(audio_path[1], ".txt")] # Absent
                                   THEN "redo"
                                   ELSE "ok"]
    /\ IF idx = Len(reels)
       THEN pc' = "count" /\ idx' = 1
       ELSE pc' = pc /\ idx' = idx + 1
    /\ UNCHANGED <<cvars, config_attrs, dvars, svars, tvars, gvars, entry, opts, audio_map, per_reel_results,
                   strategy, scripts, status, exit_code, fault, saved, dl_log>>

\* Stage 3, the check after the loop: if transcribed == 0
CountTranscripts ==
    /\ pc = "count"
    /\ IF NoTranscripts(reels)
       THEN Abort
       ELSE /\ pc' = IF entry = "app" THEN "analyse_pre" ELSE "analyse"
            /\ UNCHANGED <<status, exit_code>>
    /\ UNCHANGED <<cvars, config_attrs, dvars, svars, tvars, gvars, entry, opts, reels, idx, audio_map, fs,
                   whisper_model, per_reel_results, strategy, scripts, fault, saved,
                   dl_log, tr_log, writes, calls, events>>

\* a loop that records every result other than None
Recorded_NotNone(result) == result # None

\* if result: (analyzer.py, app.py) before reel.analysis = result and
\* per_reel_results.append(result)
Recorded(result) == Truthy(result)

\* Stage 4, one reel: an iteration of the loop of analyse_batch
\* ("analyse") or of the loop of app.py before it ("analyse_pre")
AnalyseItem ==
    /\ pc \in {"analyse_pre", "analyse"}
    /\ idx <= Len(reels)
    /\ \E raw \in ChatOutcomes :
         LET has == Truthy(reels[idx].transcript)
             result == IF has THEN ParseChat(raw) ELSE None
             results == IF Recorded(result) THEN Append(per_reel_results, result)
                        ELSE per_reel_results
         IN  /\ calls' = Bump(calls, "chat_item", has)
             /\ events' = IF has THEN Append(events, Event("chat_item", idx, raw))
                          ELSE events
             /\ reels' = IF Recorded(result) THEN [reels EXCEPT ![idx].analysis = result]
                         ELSE reels
             /\ writes' = IF Recorded(result) THEN [writes EXCEPT ![idx].analysis = @ + 1]
                          ELSE writes
             /\ IF idx < Len(reels)
                THEN /\ per_reel_results' = results
                     /\ pc' = pc
                     /\ idx' = idx + 1
                     /\ UNCHANGED <<status, exit_code>>
                ELSE IF pc = "analyse"
                THEN /\ per_reel_results' = results
                     /\ pc' = "reduce"
                     /\ idx' = 1
                     /\ UNCHANGED <<status, exit_code>>
                ELSE IF results # <<>>
                THEN /\ per_reel_results' = <<>>
                     /\ pc' = "analyse"
                     /\ idx' = 1
                     /\ UNCHANGED <<status, exit_code>>
                ELSE /\ per_reel_results' = results
                     /\ idx' = idx
                     /\ Abort
    /\ UNCHANGED <<cvars, config_attrs, dvars, svars, tvars, gvars, entry, opts, audio_map, fs, whisper_model,
                   strategy, scripts, fault, saved, dl_log, tr_log>>

\* an orchestrator that takes every result of the analysis
AnalysisFailed_Never(e, aggregate) == FALSE

\* if aggregate_strategy is None (main.py) / if not aggregate_strategy
\* (app.py)
AnalysisFailed(e, aggregate) == IF e = "run" THEN aggregate = None ELSE ~Truthy(aggregate)

\* an analyse_batch that reduces whatever it gathered
ReductionCalled_Always(results) == TRUE

\* past "if not per_reel_results: return None"
ReductionCalled(results) == results # <<>>

\* Stage 4, the reduction of analyse_batch and the orchestrator's check of
\* what it returned
Reduce ==
    /\ pc = "reduce"
    /\ \E raw \in (IF ReductionCalled(per_reel_results) THEN ChatOutcomes ELSE {None}) :
         LET aggregate == ParseChat(raw)
             failed == AnalysisFailed(entry, aggregate)
         IN  /\ calls' = Bump(calls, "chat_reduce", ReductionCalled(per_reel_results))
             /\ events' = IF ReductionCalled(per_reel_results)
                          THEN Append(events, Event("chat_reduce", 0, raw))
                          ELSE events
             /\ strategy' = aggregate
             /\ IF failed
                THEN Abort
                ELSE /\ pc' = IF entry = "run" THEN "snapshot" ELSE "generate"
                     /\ UNCHANGED <<status, exit_code>>
    /\ UNCHANGED <<cvars, config_attrs, dvars, svars, tvars, gvars, entry, opts, reels, idx, audio_map, fs,
                   whisper_model, per_reel_results, scripts, fault, saved, dl_log, tr_log, writes>>

\* a run that goes on to Stage 5 without saving its intermediate outputs
Snapshot_Skipped ==
    /\ pc = "snapshot"
    /\ saved' = saved
    /\ pc' = "generate"
    /\ UNCHANGED <<cvars, config_attrs, dvars, svars, tvars, gvars, entry, opts, reels, idx, audio_map, fs,
                   whisper_model, per_reel_results, strategy, scripts, status, exit_code,
                   fault, dl_log, tr_log, writes, calls, events>>

\* main.py: save_reels_json and save_strategy_json
Snapshot ==
    /\ pc = "snapshot"
    /\ saved' = saved \cup {"reels_json", "strategy_json"}
    /\ pc' = "generate"
    /\ UNCHANGED <<cvars, config_attrs, dvars, svars, tvars, gvars, entry, opts, reels, idx, audio_map, fs,
                   whisper_model, per_reel_results, strategy, scripts, status, exit_code,
                   fault, dl_log, tr_log, writes, calls, events>>

\* Stage 5: generate_scripts and what the orchestrator does with its result
Generate ==
    /\ pc = "generate"
    /\ \E llm \in RunLlmOutcomes :
         LET out == generate_scripts(config_attrs, llm)
         IN  /\ calls' = Bump(calls, "generate", out.called)
             /\ events' = Append(events, Event("generate_scripts", 0, None))
             /\ IF out.exc # NoExc
                THEN /\ Crash("generate_scripts", out.exc)
                     /\ UNCHANGED scripts
                ELSE /\ scripts' = out.scripts
                     /\ UNCHANGED fault
                     /\ IF entry = "app"
                        THEN status' = "done" /\ pc' = "end" /\ UNCHANGED exit_code
                        ELSE IF out.scripts = <<>>
                        THEN Abort
                        ELSE pc' = "export" /\ UNCHANGED <<status, exit_code>>
    /\ UNCHANGED <<cvars, config_attrs, dvars, svars, tvars, gvars, entry, opts, reels, idx, audio_map, fs,
                   whisper_model, per_reel_results, strategy, saved, dl_log, tr_log, writes>>

\* Stage 6 of main.py: save_scripts_text and save_scripts_json
Export ==
    /\ pc = "export"
    /\ saved' = saved \cup {"scripts_txt", "scripts_json"}
    /\ status' = "done"
    /\ pc' = "end"
    /\ UNCHANGED <<cvars, config_attrs, dvars, svars, tvars, gvars, entry, opts, reels, idx, audio_map, fs,
                   whisper_model, per_reel_results, strategy, scripts, exit_code, fault,
                   dl_log, tr_log, writes, calls, events>>

Next ==
    \/ Start
    \/ Scrape
    \/ DownloadItem
    \/ TranscribeItem
    \/ CountTranscripts
    \/ AnalyseItem
    \/ Reduce
    \/ Snapshot
    \/ Generate
    \/ Export

Spec == Init /\ [][Next]_vars

\* ------------------------------------------------------------------------
\* Properties of the pipeline
\* ------------------------------------------------------------------------
\* the Enriching stage has ended: the transcription loop has passed every
\* collected reel
EnrichingEnded ==
    /\ Len(reels) > 0
    /\ \A i \in 1..Len(reels) : tr_log[i] # "pending"

\* every reel has an absent or an empty transcript
AllTranscriptsAbsent == \A i \in 1..Len(reels) : reels[i].transcript \in {None, ""}

\* C2: when every reel ends the Enriching stage with an absent or empty
\* transcript, the run (run of main.py and app.py alike) goes from the
\* count of the transcripts to the aborted end and nowhere else, and makes
\* no call of the analysis or of the generation.
C2_NoTranscriptsAborts ==
    (EnrichingEnded /\ AllTranscriptsAbsent) =>
        /\ pc \in {"count", "end"}
        /\ pc = "end" => status = "aborted"
        /\ (pc = "end" /\ entry = "run") => exit_code = 1
        /\ calls.chat_item = 0
        /\ calls.chat_reduce = 0
        /\ calls.generate = 0
        /\ strategy = None

\* C2 witness: an aborted run of two reels, both transcribed, one to an
\* empty text and one not at all.
C2_Witness ==
    /\ pc = "end"
    /\ status = "aborted"
    /\ Len(reels) = 2
    /\ EnrichingEnded
    /\ AllTranscriptsAbsent
    /\ \E i \in 1..Len(reels) : reels[i].transcript = "" /\ tr_log[i] = "ok"
    /\ \E i \in 1..Len(reels) : reels[i].transcript = None /\ tr_log[i] = "failed"

StageOperations == {"download_all", "transcribe_reels", "analyse_batch", "generate_scripts"}

\* C6: no exception leaves download_all, transcribe_reels, analyse_batch
\* or generate_scripts.
C6_NoExceptionEscapesAStage == fault.op \notin StageOperations

\* C7: download_audio raises for no reel: every failure of the download is
\* a miss.
C7_DownloadAudioNeverRaises ==
    \A i \in 1..Len(dl_log) : dl_log[i] # "raised"

\* C8: once the Enriching stage is over or the run has ended, a reel whose
\* download or transcription failed has kept no later reel of the batch
\* from its own download and transcription.
C8_FailureDoesNotBlockLaterItems ==
    pc \in {"count", "end"} =>
        \A a \in 1..Len(reels) : \A b \in 1..Len(reels) :
            (a < b /\ (dl_log[a] \in {"miss", "raised"} \/ tr_log[a] = "failed")) =>
                /\ dl_log[b] # "pending"
                /\ tr_log[b] # "pending"

\* ------------------------------------------------------------------------
\* download_audio called repeatedly on one reel
\* ------------------------------------------------------------------------
\* the number of consecutive calls
Calls == 1..2

InitCache ==
    /\ CollectIdle
    /\ GenIdle
    /\ RunIdle
    /\ FetchIdle
    /\ TranscribeIdle
    /\ config_attrs = ConfigPy
    /\ dl_fs \in CacheDirs
    /\ dl_reel \in RunCodes
    /\ dl_force \in BOOLEAN
    /\ dl_returns = <<>>
    /\ dl_invoked = 0

\* one call download_audio(reel, force); nothing else touches the directory
DownloadAudioCall ==
    /\ Len(dl_returns) + 1 \in Calls
    /\ \E dl \in DownloadOutcomes :
         LET r == download_audio(dl_fs, dl_reel, dl_force, dl)
         IN  /\ dl_fs' = r.fs
             /\ dl_returns' = Append(dl_returns, [exc |-> r.exc, path |-> r.path])
             /\ dl_invoked' = IF r.called THEN dl_invoked + 1 ELSE dl_invoked
    /\ UNCHANGED <<cvars, config_attrs, gvars, rvars, svars, tvars, dl_reel, dl_force>>

NextCache == DownloadAudioCall

SpecCache == InitCache /\ [][NextCache]_vars

TwoUnforcedCalls == Len(dl_returns) = 2 /\ ~dl_force

\* C11 as stated: two consecutive calls of download_audio with force=false
\* return the same path and call the download collaborator at most once in
\* total, whatever the first call's outcome.
C11_TwoCallsOneDownload ==
    TwoUnforcedCalls =>
        /\ dl_returns[1] = dl_returns[2]
        /\ dl_returns[2].exc = NoExc
        /\ dl_invoked <= 1

\* C11 amended: when the first of two consecutive calls with force=false
\* returns a path, the second returns the same path and the download
\* collaborator is called at most once in total; when the first call returns
\* None or raises, nothing is cached and the second call calls the
\* collaborator again.
C11_SecondCallHitsAfterSuccess ==
    TwoUnforcedCalls =>
        IF dl_returns[1].path # <<>>
        THEN /\ dl_returns[2] = dl_returns[1]
             /\ dl_invoked <= 1
        ELSE dl_invoked = 2

\* C11 witness: a first call that downloaded the audio and a second one.
C11_Witness ==
    /\ TwoUnforcedCalls
    /\ dl_returns[1].path # <<>>
    /\ dl_invoked = 1

C13_SkipDownloadUsesCache ==
    (entry = "run" /\ opts.skip_download /\ EnrichingEnded) =>
        \A i \in 1..Len(reels) :
            LET dest == _cache_path(reels[i].shortcode)
                sidecar == WithSuffix(dest, ".txt")
            IN  fs[dest] # Absent =>
                    /\ tr_log[i] # "no_audio"
                    /\ (fs[sidecar] # Absent /\ ~opts.force) =>
                           reels[i].transcript = fs[sidecar]

\* C14 (under SpecGen): generate_scripts called with n returns at most n
\* scripts, whatever the language model answered.
C14_AtMostNScripts ==
    gpc = "returned" => Len(gen_out.scripts) <= gen_n

\* C15: in any run, the transcript and the analysis of each reel are
\* assigned at most once.
C15_WriteOnce ==
    \A i \in 1..Len(writes) :
        /\ writes[i].transcript <= 1
        /\ writes[i].analysis <= 1

ScriptFiles == {"scripts_txt", "scripts_json"}

\* C16: a run (run, gen or app.py) that ends with no exception and no
\* generated script has ended aborted, not complete, and has exported
\* nothing.
C16_EmptyGenerationAborts ==
    (pc = "end" /\ fault = NoFault /\ scripts = <<>>) =>
        /\ status = "aborted"
        /\ saved \cap ScriptFiles = {}

\* the run command past Stage 1 with an empty merged collection
EmptyCollection ==
    /\ entry = "run"
    /\ opts.strategy_file # "exists"
    /\ pc \notin {"start", "scrape"}
    /\ fault.op # "startup"
    /\ reels = <<>>

\* the run command past Stage 4 with Analysis having returned None
AnalysisReturnedNone ==
    /\ entry = "run"
    /\ opts.strategy_file # "exists"
    /\ pc \in {"snapshot", "generate", "export", "end"}
    /\ Transcribed(reels) > 0
    /\ strategy = None

\* C17: in the run command, an empty merged collection ends the run with
\* exit code 1 and without any download, transcription or language-model
\* call; Analysis returning None ends the run with exit code 1, without a
\* snapshot and without generation or export.
C17_HardFailureStopsRun ==
    /\ EmptyCollection =>
           /\ pc = "end"
           /\ status = "aborted"
           /\ exit_code = 1
           /\ calls = NoCalls
           /\ saved = {}
    /\ AnalysisReturnedNone =>
           /\ pc = "end"
           /\ status = "aborted"
           /\ exit_code = 1
           /\ saved = {}
           /\ calls.generate = 0
           /\ scripts = <<>>

\* C17 witness: a run that called the language model for a reel and ended
\* on the failure of Analysis.
C17_Witness ==
    /\ AnalysisReturnedNone
    /\ pc = "end"
    /\ calls.chat_item > 0
    /\ exit_code = 1

Snapshots == {"reels_json", "strategy_json"}

\* C18: a run or gen command given an existing strategy file goes from
\* its start to Stage 5 with the strategy of the file: it collects no
\* reel, makes no download, transcription or analysis call, loads no
\* transcription model and writes no reels or strategy snapshot.
C18_StrategyFileEntersAtGenerating ==
    (/\ entry \in {"run", "gen"}
     /\ opts.strategy_file = "exists"
     /\ pc # "start"
     /\ fault.op # "startup") =>
        /\ pc \in {"generate", "export", "end"}
        /\ strategy = SavedStrategy
        /\ reels = <<>>
        /\ audio_map = {}
        /\ whisper_model = None
        /\ calls.download = 0
        /\ calls.transcribe = 0
        /\ calls.chat_item = 0
        /\ calls.chat_reduce = 0
        /\ saved \cap Snapshots = {}

\* C18 witness: a command given a strategy file that generated scripts
\* and exported them.
C18_Witness ==
    /\ opts.strategy_file = "exists"
    /\ status = "done"
    /\ calls.generate = 1
    /\ scripts # <<>>
    /\ saved = ScriptFiles

\* the position of the reel with this shortcode in a list without duplicates
PosOf(list, shortcode) == CHOOSE i \in 1..Len(list) : list[i].shortcode = shortcode

\* C19 (under SpecCollect): the step that returns from scrape_targets
\* takes the merged list, which holds the reels target by target, to a
\* list of the same reels in non-increasing order of views in which reels
\* of equal views keep the order they had in the merged list.
C19_SortedStable ==
    [][ (cpc = "loop" /\ cpc' = "returned") =>
          /\ \A i \in 1..Len(all_reels) : \A j \in 1..Len(all_reels) :
                 i < j => all_reels[i].src <= all_reels[j].src
          /\ Len(all_reels') = Len(all_reels)
          /\ Range(all_reels') = Range(all_reels)
          /\ \A i \in 1..(Len(all_reels') - 1) :
                 all_reels'[i].views >= all_reels'[i + 1].views
          /\ \A i \in 1..Len(all_reels) : \A j \in 1..Len(all_reels) :
                 (i < j /\ all_reels[i].views = all_reels[j].views) =>
                     PosOf(all_reels', all_reels[i].shortcode)
                         < PosOf(all_reels', all_reels[j].shortcode) ]_vars

\* C19 witness: a returned list that the sort reordered (a reel of a later
\* target ahead of a reel of an earlier one) and that holds two reels of
\* equal views from different targets.
C19_Witness ==
    /\ cpc = "returned"
    /\ \E i \in 1..Len(all_reels) : \E j \in 1..Len(all_reels) :
          i < j /\ all_reels[i].src > all_reels[j].src
    /\ \E i \in 1..Len(all_reels) : \E j \in 1..Len(all_reels) :
          /\ i < j
          /\ all_reels[i].views = all_reels[j].views
          /\ all_reels[i].src < all_reels[j].src

\* ------------------------------------------------------------------------
\* scrape_by_hashtag / scrape_by_profile on a feed longer than the limit
\* ------------------------------------------------------------------------
\* the i-th post of a feed, a video with v views
FeedPost(i, v) == [shortcode |-> ToString(i), video_view_count |-> v, is_video |-> TRUE]

\* feeds of distinct videos, each passing or failing the views filter
Feeds ==
    UNION { { [i \in 1..n |-> FeedPost(i, f[i])] : f \in [1..n -> MinViewsArgs] } :
            n \in 0..MaxFeed }

FeedEnumerations ==
    { [lookup |-> l, posts |-> <<>>, tail |-> NoExc] : l \in LookupOutcomes \ {NoExc} }
    \cup
    { [lookup |-> NoExc, posts |-> ps, tail |-> t] : ps \in Feeds, t \in TailOutcomes }

InitFetch ==
    /\ targets = <<>>
    /\ max_results \in MaxResultsArgs
    /\ min_views \in MinViewsArgs
    /\ ti = 1
    /\ seen = {}
    /\ all_reels = <<>>
    /\ cpc = "idle"
    /\ hist = <<>>
    /\ config_attrs = ConfigPy
    /\ GenIdle
    /\ RunIdle
    /\ CacheIdle
    /\ TranscribeIdle
    /\ sb_profile \in BOOLEAN
    /\ sb_enum = NoEnum
    /\ sb_out = NoBatch
    /\ sb_pc = "ready"

\* one call scrape_by_hashtag(target, max_results, min_views) or
\* scrape_by_profile(target, max_results, min_views)
ScrapeByCall ==
    /\ sb_pc = "ready"
    /\ \E enum \in FeedEnumerations :
         LET out == scrape_by(sb_profile, enum, max_results, min_views, 1)
         IN  /\ sb_enum' = enum
             /\ sb_out' = out
             /\ sb_pc' = IF out.exc = NoExc THEN "returned" ELSE "raised"
    /\ UNCHANGED <<cvars, config_attrs, gvars, rvars, dvars, tvars, sb_profile>>

NextFetch == ScrapeByCall

SpecFetch == InitFetch /\ [][NextFetch]_vars

\* C20 (under SpecFetch): a target scraped with max_results = k
\* contributes at most k reels, and its enumeration yields at most 5 * k
\* posts to the loop.
C20_AtMostKAndFiveK ==
    sb_pc \in {"returned", "raised"} =>
        /\ Len(TargetBatch(sb_out)) <= max_results
        /\ sb_out.pulled <= OverFetch * max_results

\* Stage 4 of a full run is over: the reels had transcripts and the
\* orchestrator is past the analysis
AnalysisOver ==
    /\ entry \in {"run", "app"}
    /\ opts.strategy_file # "exists"
    /\ pc \in {"snapshot", "generate", "export", "end"}
    /\ Transcribed(reels) > 0

IsOp(op, e) == e.op = op

\* the reduction calls of the run, in order
Reductions == SelectSeq(events, LAMBDA e : IsOp("chat_reduce", e))

\* C21: once the analysis is over, with no successful per-reel extraction
\* no reduction call was made and the result is None; otherwise exactly one
\* reduction call was made, and the result is None when that call failed
\* or returned a text that is not JSON, and the parsed text otherwise.
C21_ReductionOnceOrNever ==
    AnalysisOver =>
        IF per_reel_results = <<>>
        THEN Reductions = <<>> /\ strategy = None
        ELSE /\ Len(Reductions) = 1
             /\ IF Reductions[1].raw = None \/ StripFence(Reductions[1].raw) \notin JsonTexts
                THEN strategy = None
                ELSE strategy = ParseJson(StripFence(Reductions[1].raw))

\* C21 witness: a run whose reduction call returned a text that is not
\* JSON, and that stopped there.
C21_Witness ==
    /\ AnalysisOver
    /\ per_reel_results # <<>>
    /\ Len(Reductions) = 1
    /\ Reductions[1].raw = "not json"
    /\ strategy = None
    /\ status = "aborted"

\* the run has failed on a name missing from its configuration: at the
\* import of config, at the read of config.ANTHROPIC_API_KEY in
\* generate_scripts
MissingKeyFault ==
    \/ fault.op = "startup"
    \/ /\ fault.op = "generate_scripts"
       /\ fault.exc = AttributeError
       /\ "ANTHROPIC_API_KEY" \notin config_attrs

\* C22: a run that fails on a missing key fails at startup, before any
\* stage has collected a reel or made a call; and no transcription fails
\* because config.WHISPER_MODEL_SIZE is missing.
C22_MissingKeyFailsAtStartup ==
    /\ MissingKeyFault =>
           /\ fault.op = "startup"
           /\ reels = <<>>
           /\ events = <<>>
    /\ \A i \in 1..Len(tr_log) :
           tr_log[i] = "failed" => "WHISPER_MODEL_SIZE" \in config_attrs

\* the download result holds no audio for the reel at position i
Unresolved(i) == ~ \E e \in audio_map : e.shortcode = reels[i].shortcode

StageRank(op) ==
    CASE op = "download_audio" -> 1
      [] op = "transcribe_file" -> 2
      [] op = "chat_item" -> 3
      [] op = "chat_reduce" -> 4
      [] op = "generate_scripts" -> 5

\* the calls of one operation, in the order they were made
CallsOf(op) == SelectSeq(events, LAMBDA e : IsOp(op, e))

\* the number of places where a sequence of per-item calls steps back
Descents(cs) == Cardinality({ k \in 1..(Len(cs) - 1) : cs[k].reel >= cs[k + 1].reel })

\* C24: the external calls of a run come in the order of the stages
\* (downloads, transcriptions, per-item analyses, reduction, generation),
\* the collection result is views-descending, and each pass over it calls
\* for its items in that order; run and analyse_batch make one pass per
\* stage, the web app one per-item pass of its own before analyse_batch's.
C24_StagesSequentialRankedOrder ==
    /\ \A j \in 1..Len(events) : \A k \in 1..Len(events) :
           j < k => StageRank(events[j].op) <= StageRank(events[k].op)
    /\ \A i \in 1..(Len(reels) - 1) : reels[i].views >= reels[i + 1].views
    /\ Descents(CallsOf("download_audio")) = 0
    /\ Descents(CallsOf("transcribe_file")) = 0
    /\ Descents(CallsOf("chat_item")) <= (IF entry = "app" THEN 1 ELSE 0)
    /\ Len(CallsOf("chat_reduce")) <= 1
    /\ Len(CallsOf("generate_scripts")) <= 1

\* C24 witness: a finished CLI run over two reels of different views that
\* downloaded, transcribed and analysed both, reduced and generated.
C24_Witness ==
    /\ entry = "run"
    /\ pc = "end"
    /\ Len(reels) = 2
    /\ reels[1].views > reels[2].views
    /\ Len(CallsOf("download_audio")) = 2
    /\ Len(CallsOf("transcribe_file")) = 2
    /\ Len(CallsOf("chat_item")) = 2
    /\ Len(CallsOf("chat_reduce")) = 1
    /\ Len(CallsOf("generate_scripts")) = 1

\* the response parses as JSON (after the fence is removed)
Parses(raw) == raw \notin {None, ""} /\ StripFence(raw) \in JsonTexts

\* the per-item responses for the reel at position i that satisfy P
ItemResponses(i, P(_)) ==
    { k \in 1..Len(events) :
        events[k].op = "chat_item" /\ events[k].reel = i /\ P(events[k].raw) }

\* the response parses to a value Python holds true
ParsesTruthy(raw) == Parses(raw) /\ StripFence(raw) \notin {"null", "{}"}

\* the response parses to a value other than null
ParsesNonNull(raw) == Parses(raw) /\ StripFence(raw) # "null"

\* the run went on to Stage 5 after the analysis
Proceeded ==
    pc \in {"snapshot", "generate", "export"} \/ CallsOf("generate_scripts") # <<>>

\* C25 as stated: every per-item response that parses as JSON is recorded
\* as the reel's analysis, and every reduction response that parses lets
\* the run proceed to Stage 5, in the CLI and in the web app.
C25_ParseSuccessOnlyTest ==
    /\ \A i \in 1..Len(reels) :
           writes[i].analysis = Cardinality(ItemResponses(i, Parses))
    /\ Reductions # <<>> /\ Parses(Reductions[1].raw) => Proceeded

\* C25 amended: a per-item response is recorded exactly when it parses to
\* a value Python holds true (an empty object and null are dropped like a
\* parse failure); the reduction's parsed value is the strategy, and the
\* run proceeds to Stage 5 exactly when that value is not null in the CLI
\* and exactly when it is true in the web app.
C25_TruthyValuesAccepted ==
    /\ \A i \in 1..Len(reels) :
           /\ writes[i].analysis = Cardinality(ItemResponses(i, ParsesTruthy))
           /\ reels[i].analysis # None <=> ItemResponses(i, ParsesTruthy) # {}
    /\ Reductions # <<>> =>
           /\ strategy = (IF ParsesNonNull(Reductions[1].raw)
                          THEN StripFence(Reductions[1].raw) ELSE None)
           /\ Proceeded <=> (IF entry = "run" THEN ParsesNonNull(Reductions[1].raw)
                             ELSE ParsesTruthy(Reductions[1].raw))

\* C25 witness: a CLI run in which the first reel's response was an empty
\* object and left no analysis, the second reel's was recorded, and the
\* reduction's empty object became the strategy the run went on with.
C25_Witness ==
    /\ entry = "run"
    /\ pc = "snapshot"
    /\ Len(reels) = 2
    /\ ItemResponses(1, LAMBDA raw : raw = "{}") # {}
    /\ reels[1].analysis = None
    /\ reels[2].analysis # None
    /\ Reductions[1].raw = "{}"
    /\ strategy = "{}"

\* ------------------------------------------------------------------------
\* transcribe_file called repeatedly on one audio path
\* ------------------------------------------------------------------------
InitTranscribe ==
    /\ CollectIdle
    /\ GenIdle
    /\ RunIdle
    /\ CacheIdle
    /\ FetchIdle
    /\ config_attrs \in ConfigModules
    /\ tf_fs \in CacheDirs
    /\ tf_audio \in { _cache_path(c) : c \in RunCodes }
    /\ tf_model = None
    /\ tf_returns = <<>>

\* one call transcribe_file(audio_path, force); nothing else touches the
\* directory. The entry of tf_returns keeps the force argument, what the
\* directory held for the audio and for the sidecar before the call, what
\* the call returned and whether the transcriber was called.
TranscribeFileCall ==
    /\ Len(tf_returns) + 1 \in Calls
    /\ \E force \in BOOLEAN : \E tr \in TranscribeOutcomes :
         LET r == transcribe_file(tf_fs, tf_model, config_attrs, tf_audio, force, tr)
         IN  /\ tf_fs' = r.fs
             /\ tf_model' = r.model
             /\ tf_returns' = Append(tf_returns,
                                     [force |-> force,
                                      audio |-> tf_fs[tf_audio],
                                      sidecar |-> tf_fs[WithSuffix(tf_audio, ".txt")],
                                      text |-> r.text,
                                      called |-> r.called])
    /\ UNCHANGED <<cvars, config_attrs, gvars, rvars, dvars, svars, tf_audio>>

NextTranscribe == TranscribeFileCall

SpecTranscribe == InitTranscribe /\ [][NextTranscribe]_vars

\* the first call had force=false, found the audio and no sidecar, and the
\* transcriber succeeded
FirstCallTranscribed ==
    /\ tf_returns # <<>>
    /\ ~tf_returns[1].force
    /\ tf_returns[1].audio # Absent
    /\ tf_returns[1].sidecar = Absent
    /\ tf_returns[1].called
    /\ tf_returns[1].text # None

\* C26: after a call of transcribe_file with force=false on an existing
\* audio file without sidecar in which the transcriber succeeded, the
\* sidecar holds the returned text, and a second call with force=false
\* returns the same text without calling the transcriber and leaves the
\* sidecar as it is.
C26_SecondCallReadsSidecar ==
    FirstCallTranscribed =>
        /\ Len(tf_returns) = 1 =>
               tf_fs[WithSuffix(tf_audio, ".txt")] = tf_returns[1].text
        /\ Len(tf_returns) = 2 /\ ~tf_returns[2].force =>
               /\ tf_returns[2].text = tf_returns[1].text
               /\ ~tf_returns[2].called
               /\ tf_returns[2].sidecar = tf_returns[1].text
               /\ tf_fs[WithSuffix(tf_audio, ".txt")] = tf_returns[1].text

\* C26 witness: two calls with force=false, the first transcribed the
\* audio and returned the stripped text, the second returned it from the
\* sidecar.
C26_Witness ==
    /\ FirstCallTranscribed
    /\ Len(tf_returns) = 2
    /\ ~tf_returns[2].force
    /\ tf_returns[1].text = "spoken words"
    /\ tf_returns[2].text = "spoken words"
    /\ ~tf_returns[2].called

\* a CLI run that was not handed an existing strategy file
FullCliRun == entry = "run" /\ opts.strategy_file # "exists"

\* analyse_batch returned a strategy other than None
AnalysisSucceeded == Reductions # <<>> /\ ParsesNonNull(Reductions[1].raw)

\* the run has left Stage 4 and the saving that follows it
PastSnapshot == pc \in {"generate", "export", "end"}

\* C27: in a CLI run the reels snapshot and the strategy snapshot are
\* written together, exactly when the analysis returned a strategy, and
\* before generate_scripts is called: a run that called generate_scripts
\* (and aborted or crashed there, or went on) has both snapshots, a run
\* that ended without calling it has none.
C27_SnapshotsAfterAnalysisBeforeGeneration ==
    FullCliRun =>
        /\ saved \cap Snapshots \in {{}, Snapshots}
        /\ saved \cap Snapshots # {} => AnalysisSucceeded
        /\ AnalysisSucceeded /\ PastSnapshot => Snapshots \subseteq saved
        /\ CallsOf("generate_scripts") # <<>> => Snapshots \subseteq saved
        /\ pc = "end" /\ CallsOf("generate_scripts") = <<>> => saved \cap Snapshots = {}

\* C27 witness: a CLI run that analysed its reels, saved both snapshots
\* and then crashed in generate_scripts.
C27_Witness ==
    /\ FullCliRun
    /\ status = "crashed"
    /\ fault.op = "generate_scripts"
    /\ AnalysisSucceeded
    /\ CallsOf("chat_item") # <<>>
    /\ Snapshots \subseteq saved
    /\ scripts = <<>>

====
